---- MODULE Spec2Model ----
(***************************************************************************)
(* Model of display-structure.py: the table layout and enum-wrapping       *)
(* engine (parse_mysql_table, get_enum_values, format_enum, colorize_cell, *)
(* print_formatted_table).                                                 *)
(*                                                                         *)
(* Text is modelled by TLA+ strings, character for character: Len is       *)
(* Python's len, \o is +, SubSeq(s, i, j) is the slice s[i-1:j].  Two      *)
(* characters that cannot be written in a TLA+ string literal have a       *)
(* stand-in of the same length: ESC (0x1B) is "~" and the bullet U+2022 of *)
(* the statistics block is "*".  Neither stand-in occurs in any input.     *)
(***************************************************************************)
EXTENDS Integers, Sequences, FiniteSets, TLC

VARIABLES
    lines,          \* the raw input lines given to parse_mysql_table
    filter_columns, \* its filter_columns argument (<<>> models None / empty)
    stats,          \* the statistics that came with the input (NoStats: none)
    headers,        \* the parsed table: the list of headers,
    data,           \*   the list of rows (each a list of cells),
    column_widths,  \*   the list of widths; the last two are changed in place
    term_width,     \* get_terminal_width() at the last render call
    colorize,       \* the colorize argument of the last render call
    printed,        \* the lines the last render call printed
    row_lines,      \* the same call's lines, grouped by data row
    before,         \* headers/data/column_widths as they were when it began
    pc,             \* "input" | "parsed" | "rendered" | "enum" | "wrapped"
    enum_str,       \* format_enum's arguments and result
    enum_width,
    enum_lines

vars == <<lines, filter_columns, stats, headers, data, column_widths,
          term_width, colorize, printed, row_lines, before, pc,
          enum_str, enum_width, enum_lines>>

(***************************************************************************)
(* Python's str and list primitives.                                       *)
(***************************************************************************)
Max2(a, b) == IF a >= b THEN a ELSE b

Min2(a, b) == IF a <= b THEN a ELSE b

Char(s, i) == SubSeq(s, i, i)

\* s[i-1:] : the suffix from position i (1-based)
From(s, i) == IF i > Len(s) THEN "" ELSE SubSeq(s, i, Len(s))

\* s[:n]
Take(s, n) == IF n <= 0 THEN "" ELSE SubSeq(s, 1, Min2(n, Len(s)))

\* str.startswith
StartsWith(s, p) == Len(p) <= Len(s) /\ SubSeq(s, 1, Len(p)) = p

\* str.endswith
EndsWith(s, p) == Len(p) <= Len(s) /\ SubSeq(s, Len(s) - Len(p) + 1, Len(s)) = p

\* str.find from position i on, 1-based, 0 when absent
RECURSIVE FindFrom(_, _, _)
FindFrom(s, p, i) ==
    IF i + Len(p) - 1 > Len(s) THEN 0
    ELSE IF SubSeq(s, i, i + Len(p) - 1) = p THEN i
    ELSE FindFrom(s, p, i + 1)

\* str.find, 1-based, 0 when absent
Find(s, p) == FindFrom(s, p, 1)

\* str.rfind up to position i, 1-based, 0 when absent
RECURSIVE RFindFrom(_, _, _)
RFindFrom(s, p, i) ==
    IF i < 1 THEN 0
    ELSE IF SubSeq(s, i, i + Len(p) - 1) = p THEN i
    ELSE RFindFrom(s, p, i - 1)

RFind(s, p) == RFindFrom(s, p, Len(s) - Len(p) + 1)

\* p in s
Contains(s, p) == Find(s, p) # 0

SetMin(S) == CHOOSE m \in S : \A k \in S : m <= k

SetMax(S) == CHOOSE m \in S : \A k \in S : m >= k

\* the characters str.strip() takes for whitespace
IsSpace(c) == c \in {" ", "\t", "\n", "\r", "\f"}

\* str.lstrip(): from position i on
RECURSIVE LStripFrom(_, _)
LStripFrom(s, i) ==
    IF i > Len(s) THEN ""
    ELSE IF IsSpace(Char(s, i)) THEN LStripFrom(s, i + 1)
    ELSE SubSeq(s, i, Len(s))

\* str.rstrip(): up to position i
RECURSIVE RStripTo(_, _)
RStripTo(s, i) ==
    IF i < 1 THEN ""
    ELSE IF IsSpace(Char(s, i)) THEN RStripTo(s, i - 1)
    ELSE SubSeq(s, 1, i)

\* str.strip()
Strip(s) == LET l == LStripFrom(s, 1) IN RStripTo(l, Len(l))

\* str.split(sep) for a one-character separator: always at least one piece
RECURSIVE Split(_, _)
Split(s, sep) ==
    LET k == Find(s, sep)
    IN  IF k = 0 THEN <<s>>
        ELSE <<Take(s, k - 1)>> \o Split(From(s, k + 1), sep)

\* list[1:-1]
Inner(l) == IF Len(l) <= 2 THEN <<>> ELSE SubSeq(l, 2, Len(l) - 1)

\* c * n
RECURSIVE Rep(_, _)
Rep(c, n) == IF n <= 0 THEN "" ELSE c \o Rep(c, n - 1)

\* str.ljust(n): never shortens
Ljust(s, n) == s \o Rep(" ", n - Len(s))

UpperCase == "ABCDEFGHIJKLMNOPQRSTUVWXYZ"

LowerCase == "abcdefghijklmnopqrstuvwxyz"

LowerOf == [c \in {Char(UpperCase, i) : i \in 1..Len(UpperCase)} |->
                Char(LowerCase, Find(UpperCase, c))]

LowerChar(c) == IF c \in DOMAIN LowerOf THEN LowerOf[c] ELSE c

\* str.lower()
RECURSIVE Lower(_)
Lower(s) == IF s = "" THEN "" ELSE LowerChar(Char(s, 1)) \o Lower(From(s, 2))

\* sum(list of integers)
RECURSIVE Sum(_)
Sum(l) == IF l = <<>> THEN 0 ELSE Head(l) + Sum(Tail(l))

\* re.findall(r"'[^']*'", s): the quoted substrings, quotes kept
RECURSIVE FindAllQuoted(_)
FindAllQuoted(s) ==
    LET open == Find(s, "'")
        rest == From(s, open + 1)
        close == Find(rest, "'")
    IN  IF open = 0 \/ close = 0 THEN <<>>
        ELSE <<"'" \o Take(rest, close)>> \o FindAllQuoted(From(rest, close + 1))

(***************************************************************************)
(* parse_mysql_table                                                       *)
(***************************************************************************)
NoTable == [headers |-> <<>>, data |-> <<>>, column_widths |-> <<>>]

\* PipeCells without the strip(): line.split('|')[1:-1]
PipeCellsUnstripped(line) == Inner(Split(line, "|"))

\* [x.strip() for x in line.split('|')[1:-1]]
PipeCells(line) ==
    LET parts == Inner(Split(line, "|"))
    IN  [k \in 1..Len(parts) |-> Strip(parts[k])]

TabCells(line) == Split(line, "\t")

\* IsSeparator that expects a longer run of dashes
IsSeparatorLongRun(line) == StartsWith(line, "+----")

IsSeparator(line) == StartsWith(line, "+--")

\* the loop of the tab-delimited branch: a row for every non-blank line
\* after the first
TabRows(ls) ==
    LET F[i \in 0..Len(ls)] ==
            IF i = 0 THEN <<>>
            ELSE IF i < 2 \/ Strip(ls[i]) = "" THEN F[i - 1]
            ELSE Append(F[i - 1], TabCells(ls[i]))
    IN  F[Len(ls)]

\* the tab-delimited branch: the first line holds the headers
ParseTab(ls) == [headers |-> Split(ls[1], "\t"), data |-> TabRows(ls)]

\* the loop of the pipe-delimited branch: a row for every line from `from`
\* on that is neither a separator nor blank
PipeRows(ls, from) ==
    LET F[i \in 0..Len(ls)] ==
            IF i = 0 THEN <<>>
            ELSE IF i < from \/ IsSeparator(ls[i]) \/ Strip(ls[i]) = "" THEN F[i - 1]
            ELSE Append(F[i - 1], PipeCells(ls[i]))
    IN  F[Len(ls)]

\* the index of the first line that starts with '| Field', 0 when there is none
HeaderLine(ls) ==
    LET hits == {i \in 1..Len(ls) : StartsWith(ls[i], "| Field")}
    IN  IF hits = {} THEN 0 ELSE SetMin(hits)

\* the first line that can hold a data row: range(header_line + 2, len(lines))
FirstDataLine(hl) == hl + 2

\* the pipe-delimited branch, given the header line hl > 0
ParsePipe(ls, hl) ==
    [headers |-> PipeCells(ls[hl]),
     data    |-> PipeRows(ls, FirstDataLine(hl))]

\* the indices of the headers that filter_columns names
SelectedIndices(hs, fc) ==
    LET F[i \in 0..Len(hs)] ==
            IF i = 0 THEN <<>>
            ELSE IF \E k \in 1..Len(fc) : fc[k] = hs[i]
                 THEN Append(F[i - 1], i) ELSE F[i - 1]
    IN  F[Len(hs)]

\* FilterRow that takes the cells by their position in the filtered row
FilterRowByPosition(row, sel) ==
    LET F[k \in 0..Len(sel)] ==
            IF k = 0 THEN <<>>
            ELSE IF sel[k] <= Len(row)
                 THEN Append(F[k - 1], row[k]) ELSE F[k - 1]
    IN  F[Len(sel)]

\* [row[i] for i in selected_indices if i < len(row)]
FilterRow(row, sel) ==
    LET F[k \in 0..Len(sel)] ==
            IF k = 0 THEN <<>>
            ELSE IF sel[k] <= Len(row)
                 THEN Append(F[k - 1], row[sel[k]]) ELSE F[k - 1]
    IN  F[Len(sel)]

\* the column filter; an empty (or absent) filter_columns leaves the table as is
FilterTable(t, fc) ==
    IF fc = <<>> THEN t
    ELSE LET sel == SelectedIndices(t.headers, fc)
         IN  [headers |-> [k \in 1..Len(sel) |-> t.headers[sel[k]]],
              data    |-> [r \in 1..Len(t.data) |-> FilterRow(t.data[r], sel)]]

EnumPrefixLen == 5

\* max([len(val) for val in enum_values], default=0)
LongestQuoted(cell) ==
    LET vs == FindAllQuoted(cell)
    IN  IF vs = <<>> THEN 0 ELSE SetMax({Len(vs[k]) : k \in 1..Len(vs)})

\* what one cell asks of its column's width
CellWidth(cell) ==
    IF Contains(cell, "enum(") THEN LongestQuoted(cell) + EnumPrefixLen + 1
    ELSE Len(cell)

\* the initial width of column i
ColumnWidth(hs, d, i) ==
    LET F[r \in 0..Len(d)] ==
            IF r = 0 THEN Len(hs[i])
            ELSE IF i <= Len(d[r]) THEN Max2(F[r - 1], CellWidth(d[r][i]))
                 ELSE F[r - 1]
    IN  F[Len(d)]

WithWidths(t) ==
    [headers |-> t.headers, data |-> t.data,
     column_widths |-> [i \in 1..Len(t.headers) |->
                            ColumnWidth(t.headers, t.data, i)]]

parse_mysql_table(ls, fc) ==
    IF ls = <<>> THEN NoTable
    ELSE IF Contains(ls[1], "\t") THEN WithWidths(FilterTable(ParseTab(ls), fc))
    ELSE IF HeaderLine(ls) = 0 THEN NoTable
    ELSE WithWidths(FilterTable(ParsePipe(ls, HeaderLine(ls)), fc))

(***************************************************************************)
(* get_enum_values and format_enum                                         *)
(***************************************************************************)
\* re.search(r'enum\((.*)\)', s): whether it matches.  The leftmost 'enum('
\* that has a ')' after it; if the first has none, no later one has
EnumMatches(s) ==
    Contains(s, "enum(") /\ Contains(From(s, Find(s, "enum(") + Len("enum(")), ")")

\* match.group(1): '.*' is greedy, so up to the last ')'
EnumContent(s) ==
    LET start == Find(s, "enum(") + Len("enum(")
        last  == RFind(s, ")")
    IN  IF last <= start THEN "" ELSE SubSeq(s, start, last - 1)

get_enum_values(s) ==
    IF ~EnumMatches(s) THEN <<>> ELSE FindAllQuoted(EnumContent(s))

\* the value as the loop appends it: with a comma unless it is the last
WithComma(vals, i) == IF i < Len(vals) THEN vals[i] \o "," ELSE vals[i]

\* Fits that keeps a margin of two characters
FitsWithMargin(current_line, val, width) ==
    Len(current_line \o " " \o val) <= width - 2

\* whether val still goes on the current line
Fits(current_line, val, width) == Len(current_line \o " " \o val) <= width

\* PackValues that forgets the line it was filling when it starts a new one
PackValuesDropping(vals, width) ==
    LET F[i \in 1..Len(vals)] ==
            IF i = 1
            THEN [lines |-> <<"enum(" \o WithComma(vals, 1)>>, current_line |-> ""]
            ELSE LET p   == F[i - 1]
                     val == WithComma(vals, i)
                 IN  IF p.current_line = ""
                     THEN [lines |-> p.lines, current_line |-> val]
                     ELSE IF ~Fits(p.current_line, val, width)
                     THEN [lines |-> p.lines, current_line |-> val]
                     ELSE [lines |-> p.lines,
                           current_line |-> p.current_line \o " " \o val]
    IN  F[Len(vals)]

\* the loop over enum_values[1:]: the state is (lines, current_line)
PackValues(vals, width) ==
    LET F[i \in 1..Len(vals)] ==
            IF i = 1
            THEN [lines |-> <<"enum(" \o WithComma(vals, 1)>>, current_line |-> ""]
            ELSE LET p   == F[i - 1]
                     val == WithComma(vals, i)
                 IN  IF p.current_line = ""
                     THEN [lines |-> p.lines, current_line |-> val]
                     ELSE IF ~Fits(p.current_line, val, width)
                     THEN [lines |-> Append(p.lines, p.current_line),
                           current_line |-> val]
                     ELSE [lines |-> p.lines,
                           current_line |-> p.current_line \o " " \o val]
    IN  F[Len(vals)]

\* the closing parenthesis on the last line
CloseLast(ls) ==
    LET n == Len(ls)
    IN  IF EndsWith(ls[n], ",")
        THEN [ls EXCEPT ![n] = Take(ls[n], Len(ls[n]) - 1) \o ")"]
        ELSE [ls EXCEPT ![n] = ls[n] \o ")"]

format_enum(s, width) ==
    LET vals == get_enum_values(s)
    IN  IF vals = <<>> THEN <<s>>
        ELSE LET p == PackValues(vals, width)
             IN  CloseLast(IF p.current_line = "" THEN p.lines
                           ELSE Append(p.lines, p.current_line))

(***************************************************************************)
(* class Colors and colorize_cell                                          *)
(***************************************************************************)
ESC == "~"

RESET == ESC \o "[0m"

BOLD == ESC \o "[1m"

RED == ESC \o "[31m"

GREEN == ESC \o "[32m"

YELLOW == ESC \o "[33m"

BLUE == ESC \o "[34m"

MAGENTA == ESC \o "[35m"

CYAN == ESC \o "[36m"

Decorated(code, cell) == code \o cell \o RESET

colorize_cell(cell, header, col) ==
    LET h == Lower(header)
        c == Lower(cell)
    IN  IF ~col THEN cell
        ELSE IF h = "key" THEN
            IF cell = "PRI" THEN Decorated(BOLD \o RED, cell)
            ELSE IF cell = "UNI" THEN Decorated(BOLD \o BLUE, cell)
            ELSE IF cell = "MUL" THEN Decorated(BOLD \o GREEN, cell)
            ELSE cell
        ELSE IF h = "null" THEN
            IF cell = "NO" THEN Decorated(BOLD \o RED, cell)
            ELSE IF cell = "YES" THEN Decorated(GREEN, cell)
            ELSE cell
        ELSE IF h = "type" THEN
            IF Contains(c, "int") THEN Decorated(CYAN, cell)
            ELSE IF Contains(c, "char") \/ Contains(c, "text") THEN Decorated(GREEN, cell)
            ELSE IF Contains(c, "date") \/ Contains(c, "time") THEN Decorated(YELLOW, cell)
            ELSE IF Contains(c, "enum") THEN Decorated(MAGENTA, cell)
            ELSE cell
        ELSE IF h = "extra" THEN
            IF Contains(c, "auto_increment") THEN Decorated(BOLD \o YELLOW, cell)
            ELSE cell
        ELSE cell

(***************************************************************************)
(* print_formatted_table                                                   *)
(***************************************************************************)
MaxTypeWidth == 50

EnumWrapThreshold == 40

SeparatorChars == 3

OuterChars == 4

\* TypeColIndex that compares the header as it is written
TypeColIndexCaseSensitive(hs) ==
    LET hits == {i \in 1..Len(hs) : hs[i] = "type"}
    IN  IF hits # {} THEN SetMin(hits)
        ELSE IF Len(hs) > 1 THEN 2
        ELSE 0

\* the index of the flexible ("Type") column, 0 for none (the code's -1)
TypeColIndex(hs) ==
    LET hits == {i \in 1..Len(hs) : Lower(hs[i]) = "type"}
    IN  IF hits # {} THEN SetMin(hits)
        ELSE IF Len(hs) > 1 THEN 2
        ELSE 0

\* TypeWidth without the cap of 50 on the available width
TypeWidthUncapped(widths, tci, tw) ==
    LET non_type_width == (Sum(widths) - widths[tci])
                            + (Len(widths) - 1) * SeparatorChars + OuterChars
        available_width == tw - non_type_width
    IN  Max2(widths[tci], available_width)

\* the width the flexible column gets
TypeWidth(widths, tci, tw) ==
    LET non_type_width == (Sum(widths) - widths[tci])
                            + (Len(widths) - 1) * SeparatorChars + OuterChars
        available_width == tw - non_type_width
    IN  Max2(widths[tci], Min2(available_width, MaxTypeWidth))

\* column_widths after the in-place adjustment
AdjustWidths(widths, tci, tw) ==
    IF tci = 0 THEN widths
    ELSE [widths EXCEPT ![tci] = TypeWidth(widths, tci, tw)]

NoStats == [k \in {} |-> ""]

\* stats.get(key, 'N/A')
StatGet(st, key) == IF key \in DOMAIN st THEN st[key] ELSE "N/A"

Bullet == "*"

\* the statistics block: nothing when stats is None or empty
StatsBlock(st, col) ==
    IF DOMAIN st = {} THEN <<>>
    ELSE IF col THEN
        << BOLD \o "Table Statistics:" \o RESET,
           Bullet \o " Row Count: " \o CYAN \o StatGet(st, "row_count") \o RESET,
           Bullet \o " Size: " \o CYAN \o StatGet(st, "size_mb") \o " MB" \o RESET,
           Bullet \o " Index Count: " \o CYAN \o StatGet(st, "index_count") \o RESET,
           "" >>
    ELSE
        << "Table Statistics:",
           Bullet \o " Row Count: " \o StatGet(st, "row_count"),
           Bullet \o " Size: " \o StatGet(st, "size_mb") \o " MB",
           Bullet \o " Index Count: " \o StatGet(st, "index_count"),
           "" >>

\* the concatenation of the strings of a list
RECURSIVE Concat(_)
Concat(l) == IF l = <<>> THEN "" ELSE Head(l) \o Concat(Tail(l))

\* the concatenation of the lists of a list
RECURSIVE Flatten(_)
Flatten(l) == IF l = <<>> THEN <<>> ELSE Head(l) \o Flatten(Tail(l))

Separator(widths) ==
    "+" \o Concat([i \in 1..Len(widths) |-> Rep("-", widths[i] + 2) \o "+"])

\* PaddedCell that pads by the length of the text shown, codes included
PaddedCellByShownLength(shown, visible_len, width) ==
    " " \o Ljust(shown, visible_len) \o " " \o Rep(" ", width - Len(shown)) \o "|"

\* a cell as the f-string lays it out: the text shown, ljust to its visible
\* length, then the padding up to the column's width
PaddedCell(shown, visible_len, width) ==
    " " \o Ljust(shown, visible_len) \o " " \o Rep(" ", width - visible_len) \o "|"

HeaderDisplay(header, col) == IF col THEN BOLD \o header \o RESET ELSE header

HeaderRow(hs, widths, col) ==
    "|" \o Concat([i \in 1..Len(hs) |->
                     PaddedCell(HeaderDisplay(hs[i], col), Len(hs[i]), widths[i])])

\* while len(row) < len(headers): row.append("")
PadRow(row, n) ==
    IF Len(row) >= n THEN row ELSE row \o [k \in 1..(n - Len(row)) |-> ""]

\* HasEnum that also wraps a cell of exactly the threshold's length
HasEnumFromThreshold(row, tci) ==
    /\ tci # 0
    /\ tci <= Len(row)
    /\ Contains(row[tci], "enum(")
    /\ Len(row[tci]) >= EnumWrapThreshold

\* whether the row takes the wrapped-enum path
HasEnum(row, tci) ==
    /\ tci # 0
    /\ tci <= Len(row)
    /\ Contains(row[tci], "enum(")
    /\ Len(row[tci]) > EnumWrapThreshold

\* the cells of the row that are printed: i < len(column_widths)
PrintedCells(row, widths) == Min2(Len(row), Len(widths))

NormalRow(row, hs, widths, col) ==
    "|" \o Concat([i \in 1..PrintedCells(row, widths) |->
                     PaddedCell(colorize_cell(row[i], hs[i], col), Len(row[i]),
                                widths[i])])

ColoredEnum(enum_line, col) ==
    IF col THEN MAGENTA \o enum_line \o RESET ELSE enum_line

\* the flexible cell on the last physical line of a wrapped row
LastEnumCell(enum_line, width, col) ==
    " " \o ColoredEnum(enum_line, col) \o Rep(" ", width - Len(enum_line)) \o " |"

\* any other cell on a continuation line
BlankCell(width) == " " \o Ljust(" ", width) \o " |"

\* cell i of physical line j of a wrapped row
WrappedCell(row, hs, widths, col, enum_lines_, tci, j, i) ==
    IF i = tci THEN
        IF j = Len(enum_lines_)
        THEN LastEnumCell(enum_lines_[j], widths[i], col)
        ELSE PaddedCell(ColoredEnum(enum_lines_[j], col), Len(enum_lines_[j]),
                        widths[i])
    ELSE IF j = 1
        THEN PaddedCell(colorize_cell(row[i], hs[i], col), Len(row[i]), widths[i])
        ELSE BlankCell(widths[i])

WrappedRow(row, hs, widths, col, tci) ==
    LET enum_lines_ == format_enum(row[tci], widths[tci])
    IN  [j \in 1..Len(enum_lines_) |->
            "|" \o Concat([i \in 1..PrintedCells(row, widths) |->
                             WrappedCell(row, hs, widths, col, enum_lines_, tci, j, i)])]

\* the physical lines of one (padded) data row
RowBlock(row, hs, widths, col, tci) ==
    IF HasEnum(row, tci)
    THEN WrappedRow(row, hs, widths, col, tci)
    ELSE <<NormalRow(row, hs, widths, col)>>

\* one call: what it prints and what it leaves in column_widths and data
print_formatted_table(hs, d, widths, st, col, tw) ==
    LET tci    == TypeColIndex(hs)
        w2     == AdjustWidths(widths, tci, tw)
        d2     == [r \in 1..Len(d) |-> PadRow(d[r], Len(hs))]
        blocks == [r \in 1..Len(d) |-> RowBlock(d2[r], hs, w2, col, tci)]
        sep    == Separator(w2)
    IN  [column_widths |-> w2,
         data          |-> d2,
         row_lines     |-> blocks,
         printed       |-> StatsBlock(st, col)
                             \o <<sep, HeaderRow(hs, w2, col), sep>>
                             \o Flatten(blocks)
                             \o <<sep>>]

(***************************************************************************)
(* The inputs: what main() hands to parse_mysql_table and to               *)
(* print_formatted_table.  A table's text is laid out the ways the mysql   *)
(* client prints it (bordered, or tab-delimited in batch mode), or more    *)
(* loosely, from rows of a pool taken in the pool's order.                 *)
(***************************************************************************)
MaxRows == 2

LongEnum == "enum('pending','active','on hold','closed','new')"

LongSet == "set('read','write','execute','admin','owner','guests')"

BareEnum == "enum(alpha,beta,gamma,delta,epsilon,zeta,eta)"

\* a declaration of exactly 40 characters
FortyEnum == "enum('north','south','east','west','up')"

RowPool ==
    << <<"id", "int(11)", "NO", "PRI">>,
       <<"name", "varchar(64)", "YES", "", "auto_increment">>,
       <<"status", "enum('a','b','c')", "NO", "MUL">>,
       <<"kind", LongEnum, "YES", "UNI">>,
       <<"perm", LongSet, "YES">>,
       <<"legacy", BareEnum>>,
       <<"mode", "text", "", "enum('k','l')">>,
       <<" note", "date", "", "">>,
       <<"flag", FortyEnum, "NO">> >>

\* the rows of a table: up to MaxRows of the pool, in the pool's order
RowChoices ==
    {c \in UNION {[1..m -> 1..Len(RowPool)] : m \in 0..MaxRows} :
        \A i \in 1..(Len(c) - 1) : c[i] < c[i + 1]}

ColumnNames == <<"Field", "Type", "Null", "Key">>

\* a row as the client prints it in a bordered table
PipeLine(cells) ==
    "|" \o Concat([i \in 1..Len(cells) |-> " " \o cells[i] \o " |"])

\* a row as the client prints it in batch mode
TabLine(cells) ==
    IF cells = <<>> THEN ""
    ELSE Head(cells) \o Concat([i \in 1..(Len(cells) - 1) |-> "\t" \o cells[i + 1]])

Border == "+-------+------+------+-----+"

Bordered(c) ==
    <<Border, PipeLine(ColumnNames), Border>>
        \o [r \in 1..Len(c) |-> PipeLine(RowPool[c[r]])]
        \o <<Border>>

\* no border under the header line, a border and a blank line after each row
Loose(c) ==
    <<"", PipeLine(ColumnNames)>>
        \o Flatten([r \in 1..Len(c) |-> <<PipeLine(RowPool[c[r]]), Border, "  ">>])

Batch(c) ==
    <<TabLine(ColumnNames)>>
        \o [r \in 1..Len(c) |-> TabLine(RowPool[c[r]])]
        \o <<"">>

\* a bordered table of another statement: no line starts with '| Field'
Headless == <<Border, "| Name | Type |", Border, "| id | int(11) |", Border>>

\* the five-line example of a bordered table
Example ==
    <<"+---+------+", "| Field | Type |", "+---+------+", "| id | int(11) |",
      "+---+------+">>

\* a batch-mode result whose type columns are written in other cases
OtherCase == <<"Field\tNull\tTYPE\ttype", "id\tNO\tint(11)\tx">>

Inputs ==
    {<<>>, Headless, Example, OtherCase}
        \cup {Bordered(c) : c \in RowChoices}
        \cup {Loose(c) : c \in RowChoices}
        \cup {Batch(c) : c \in RowChoices}

SomeStats == [row_count |-> "42", size_mb |-> "0.02"]

\* --columns and --stats: the filter and the statistics of one run
Invocations ==
    { [filter |-> <<>>, stats |-> NoStats],
      [filter |-> <<>>, stats |-> SomeStats],
      [filter |-> <<"Type", "Key">>, stats |-> NoStats],
      [filter |-> <<"Field", "Null", "Key">>, stats |-> NoStats],
      [filter |-> <<"Key", "Bogus", "Null">>, stats |-> NoStats],
      [filter |-> <<"Field">>, stats |-> SomeStats] }

TermWidths == {24, 64}

(***************************************************************************)
(* The program: parse once, then render (any number of times).             *)
(***************************************************************************)
EnumIdle == enum_str = "" /\ enum_width = 0 /\ enum_lines = <<>>

Init ==
    /\ lines \in Inputs
    /\ \E inv \in Invocations : filter_columns = inv.filter /\ stats = inv.stats
    /\ headers = <<>> /\ data = <<>> /\ column_widths = <<>>
    /\ term_width = 0 /\ colorize = FALSE
    /\ printed = <<>> /\ row_lines = <<>>
    /\ before = NoTable
    /\ pc = "input"
    /\ EnumIdle

Parse ==
    /\ pc = "input"
    /\ \E t \in {parse_mysql_table(lines, filter_columns)} :
           /\ headers' = t.headers
           /\ data' = t.data
           /\ column_widths' = t.column_widths
    /\ pc' = "parsed"
    /\ UNCHANGED <<lines, filter_columns, stats, term_width, colorize, printed,
                   row_lines, before, enum_str, enum_width, enum_lines>>

Render(tw, col) ==
    /\ pc \in {"parsed", "rendered"}
    /\ \E r \in {print_formatted_table(headers, data, column_widths, stats, col, tw)} :
           /\ column_widths' = r.column_widths
           /\ data' = r.data
           /\ printed' = r.printed
           /\ row_lines' = r.row_lines
    /\ before' = [headers |-> headers, data |-> data, column_widths |-> column_widths]
    /\ term_width' = tw
    /\ colorize' = col
    /\ pc' = "rendered"
    /\ UNCHANGED <<lines, filter_columns, stats, headers,
                   enum_str, enum_width, enum_lines>>

Next ==
    \/ Parse
    \/ \E tw \in TermWidths, col \in BOOLEAN : Render(tw, col)

Spec == Init /\ [][Next]_vars

(***************************************************************************)
(* format_enum on its own: any declaration, any width.                     *)
(***************************************************************************)
MaxValues == 4

MaxWidth == 14

ValuePool == <<"'a'", "''", "'c,d'", "'e f'">>

ValueLists == UNION {[1..m -> 1..Len(ValuePool)] : m \in 1..MaxValues}

\* ', '.join-like: the values of the list with sep between them
JoinValues(c, sep) ==
    ValuePool[c[1]] \o Concat([i \in 1..(Len(c) - 1) |-> sep \o ValuePool[c[i + 1]]])

Declarations ==
    {"enum(" \o JoinValues(c, ",") \o ")" : c \in ValueLists}
        \cup {"x enum(" \o JoinValues(c, ", ") \o ") (y)" : c \in ValueLists}
        \cup {"enum()", "enum('a'", "int(11)"}

InitEnum ==
    /\ enum_str \in Declarations
    /\ enum_width \in 1..MaxWidth
    /\ enum_lines = <<>>
    /\ pc = "enum"
    /\ lines = <<>> /\ filter_columns = <<>> /\ stats = NoStats
    /\ headers = <<>> /\ data = <<>> /\ column_widths = <<>>
    /\ term_width = 0 /\ colorize = FALSE
    /\ printed = <<>> /\ row_lines = <<>>
    /\ before = NoTable

FormatEnum ==
    /\ pc = "enum"
    /\ enum_lines' = format_enum(enum_str, enum_width)
    /\ pc' = "wrapped"
    /\ UNCHANGED <<lines, filter_columns, stats, headers, data, column_widths,
                   term_width, colorize, printed, row_lines, before,
                   enum_str, enum_width>>

NextEnum == FormatEnum

SpecEnum == InitEnum /\ [][NextEnum]_vars

(***************************************************************************)
(* What the properties below read off the printed text.                    *)
(***************************************************************************)
\* the position of the 'm' that ends the decoration code starting at k
\* (ESC '[' digits or ';' 'm'), 0 when no code starts there
RECURSIVE CodeEndFrom(_, _)
CodeEndFrom(s, i) ==
    IF i > Len(s) THEN 0
    ELSE IF Char(s, i) = "m" THEN i
    ELSE IF Char(s, i) \in {"0", "1", "2", "3", "4", "5", "6", "7", "8", "9", ";"}
         THEN CodeEndFrom(s, i + 1)
    ELSE 0

CodeEnd(s, k) == IF Char(s, k + 1) = "[" THEN CodeEndFrom(s, k + 2) ELSE 0

\* the text with every decoration code removed: what a terminal shows
RECURSIVE StripAnsi(_)
StripAnsi(s) ==
    LET k == Find(s, ESC)
    IN  IF k = 0 THEN s
        ELSE IF k = Len(s) \/ CodeEnd(s, k) = 0
             THEN Take(s, k) \o StripAnsi(From(s, k + 1))
        ELSE Take(s, k - 1) \o StripAnsi(From(s, CodeEnd(s, k) + 1))

StripAll(ls) == [i \in 1..Len(ls) |-> StripAnsi(ls[i])]

\* the position of the '|' that closes cell i of an aligned line
Boundary(widths, i) == 1 + Sum(SubSeq(widths, 1, i)) + 3 * i

\* the visible line has one cell per column, each of its width + 2 characters
\* between two '|'
Aligned(visible, widths) ==
    /\ Len(visible) = Boundary(widths, Len(widths))
    /\ \A i \in 0..Len(widths) : Char(visible, Boundary(widths, i)) = "|"

\* the rows of the current table that took the wrapped-enum path
Wrapped(r) == HasEnum(data[r], TypeColIndex(headers))

Rendered == pc = "rendered"

(***************************************************************************)
(* C1.  Every physical line printed for a row that takes the wrapped-enum  *)
(* path has one cell per column, each of exactly its column's width + 2    *)
(* visible characters, and every line format_enum returned for it is no    *)
(* longer than the flexible column's width.  The code does not keep this:  *)
(* the ')' is appended after the width check, and a declaration without    *)
(* quoted values comes back whole.                                         *)
(***************************************************************************)
C1_WrappedRowsAligned ==
    Rendered =>
        \A r \in 1..Len(data) :
            Wrapped(r) =>
                /\ \A j \in 1..Len(row_lines[r]) :
                       Aligned(StripAnsi(row_lines[r][j]), column_widths)
                /\ LET tci == TypeColIndex(headers)
                       ls  == format_enum(data[r][tci], column_widths[tci])
                   IN  \A j \in 1..Len(ls) : Len(ls[j]) <= column_widths[tci]

(***************************************************************************)
(* C2.  Every row printed as a single physical line has, for every column, *)
(* a cell of exactly that column's width + 2 visible characters.  The code *)
(* does not keep this for a cell that contains 'enum(' and is not wrapped: *)
(* its column was sized for its longest value, not for the cell.           *)
(***************************************************************************)
C2_SingleLineRowsAligned ==
    Rendered =>
        \A r \in 1..Len(data) :
            ~Wrapped(r) =>
                /\ Len(row_lines[r]) = 1
                /\ Aligned(StripAnsi(row_lines[r][1]), column_widths)

(***************************************************************************)
(* C3.  After the width adjustment the flexible column is at least as wide *)
(* as before and, as the claim has it, at most 50 wide.                    *)
(***************************************************************************)
C3_FlexibleWidthAtMost50 ==
    (Rendered /\ TypeColIndex(headers) # 0) =>
        LET tci == TypeColIndex(headers)
        IN  /\ column_widths[tci] >= before.column_widths[tci]
            /\ column_widths[tci] <= MaxTypeWidth

(***************************************************************************)
(* C3, amended.  After the width adjustment the flexible column is at      *)
(* least as wide as before and at most max(width before, 50): it is wider  *)
(* than 50 only when it already was, and then it is unchanged.             *)
(***************************************************************************)
C3_FlexibleWidthBounds ==
    (Rendered /\ TypeColIndex(headers) # 0) =>
        LET tci == TypeColIndex(headers)
            old == before.column_widths[tci]
        IN  /\ column_widths[tci] >= old
            /\ column_widths[tci] <= Max2(old, MaxTypeWidth)
            /\ old >= MaxTypeWidth => column_widths[tci] = old

\* C3: a call that widened the flexible column, and not up to the cap
C3_Witness ==
    /\ Rendered
    /\ TypeColIndex(headers) # 0
    /\ LET tci == TypeColIndex(headers)
       IN  /\ before.column_widths[tci] < column_widths[tci]
           /\ column_widths[tci] < MaxTypeWidth

\* the strings of a list with sep between them
RECURSIVE JoinWith(_, _)
JoinWith(l, sep) ==
    IF l = <<>> THEN ""
    ELSE IF Len(l) = 1 THEN l[1]
    ELSE l[1] \o sep \o JoinWith(Tail(l), sep)

(***************************************************************************)
(* C4.  For a declaration with at least one value, the lines format_enum   *)
(* returns hold, read in order, exactly the values of get_enum_values in   *)
(* their order; the first line begins with 'enum(', the last ends with     *)
(* ')', every value but the last is followed by a comma and the last by    *)
(* none: the lines joined by single spaces read enum(v1, v2, ..., vn).     *)
(***************************************************************************)
C4_ValuesPreserved ==
    (pc = "wrapped" /\ get_enum_values(enum_str) # <<>>) =>
        LET vals == get_enum_values(enum_str)
        IN  /\ Flatten([j \in 1..Len(enum_lines) |-> FindAllQuoted(enum_lines[j])])
                   = vals
            /\ StartsWith(enum_lines[1], "enum(")
            /\ EndsWith(enum_lines[Len(enum_lines)], ")")
            /\ JoinWith(enum_lines, " ") = "enum(" \o JoinWith(vals, ", ") \o ")"

\* C4: a declaration wrapped over three lines or more, one of the later
\* lines holding two values
C4_Witness ==
    /\ pc = "wrapped"
    /\ Len(enum_lines) >= 3
    /\ \E j \in 2..Len(enum_lines) : Len(FindAllQuoted(enum_lines[j])) >= 2

\* the printed lines fed back to the parser (no filter)
Reparsed == parse_mysql_table(printed, <<>>)

NoEnumCell ==
    \A r \in 1..Len(data) : \A i \in 1..Len(data[r]) : ~Contains(data[r][i], "enum(")

NoRowWrapped == \A r \in 1..Len(data) : ~Wrapped(r)

\* text that survives ' text |' being split at '|' and stripped
Clean(x) == Strip(x) = x /\ ~Contains(x, "|")

\* what the pipe-delimited parser needs to read a printed table back: a
\* header line that starts with '| Field', clean headers and cells, and no
\* row with more cells than there are headers
ReadsBack ==
    /\ headers # <<>>
    /\ StartsWith(headers[1], "Field")
    /\ \A i \in 1..Len(headers) : Clean(headers[i])
    /\ \A r \in 1..Len(data) :
           /\ Len(data[r]) = Len(headers)
           /\ \A i \in 1..Len(data[r]) : Clean(data[r][i])

(***************************************************************************)
(* C5.  As the claim has it: any parsed table (either input format, with   *)
(* or without a column filter) that has no enum cell and no wrapped row,   *)
(* printed with colorize=false and parsed again in pipe-delimited mode,    *)
(* gives the same headers and the same cells.                              *)
(***************************************************************************)
C5_RoundTripAnyTable ==
    (Rendered /\ ~colorize /\ NoEnumCell /\ NoRowWrapped) =>
        /\ Reparsed.headers = headers
        /\ Reparsed.data = data

(***************************************************************************)
(* C5, amended.  The round trip holds when, besides, the first header      *)
(* begins with 'Field' (the parser finds the header line by '| Field'),    *)
(* no header or cell has a '|' or leading or trailing whitespace, and no   *)
(* row has more cells than there are headers; rows shorter than the        *)
(* headers come back padded with empty cells, as the render left them.     *)
(***************************************************************************)
C5_RoundTripReadable ==
    (Rendered /\ ~colorize /\ NoEnumCell /\ NoRowWrapped /\ ReadsBack) =>
        /\ Reparsed.headers = headers
        /\ Reparsed.data = data

\* C5: a printed table with rows, one of them padded by the render, read back
C5_Witness ==
    /\ Rendered /\ ~colorize /\ NoEnumCell /\ NoRowWrapped /\ ReadsBack
    /\ \E r \in 1..Len(data) : Len(before.data[r]) < Len(data[r])
    /\ Reparsed.data = data

\* the lines after the header line that are neither blank nor separators
DataLinesAfter(ls, hl) ==
    LET F[i \in 0..Len(ls)] ==
            IF i = 0 THEN <<>>
            ELSE IF i <= hl \/ Strip(ls[i]) = "" \/ StartsWith(ls[i], "+--")
                 THEN F[i - 1]
            ELSE Append(F[i - 1], ls[i])
    IN  F[Len(ls)]

PipeMode == lines # <<>> /\ ~Contains(lines[1], "\t") /\ HeaderLine(lines) # 0

(***************************************************************************)
(* C6.  In pipe-delimited mode, every line after the header line that is   *)
(* not blank and does not begin with '+--' becomes exactly one data row,   *)
(* in input order, its '|'-delimited fields trimmed; none is skipped.  The *)
(* code starts at header_line + 2: the line right after the header is      *)
(* skipped whatever it holds.                                              *)
(***************************************************************************)
C6_EveryDataLineIsARow ==
    (pc = "parsed" /\ PipeMode /\ filter_columns = <<>>) =>
        LET rows == DataLinesAfter(lines, HeaderLine(lines))
        IN  data = [k \in 1..Len(rows) |->
                       LET parts == Inner(Split(rows[k], "|"))
                       IN  [i \in 1..Len(parts) |-> Strip(parts[i])]]

\* the headers of the unfiltered table that the filter names, by position
Kept(hs, fc) == {i \in 1..Len(hs) : \E k \in 1..Len(fc) : fc[k] = hs[i]}

\* the k-th smallest element of a set of positions
KthOf(S, k) == CHOOSE i \in S : Cardinality({j \in S : j <= i}) = k

Unfiltered == parse_mysql_table(lines, <<>>)

(***************************************************************************)
(* C7.  With a non-empty column filter the headers returned are exactly    *)
(* the input headers that are members of the filter, in their original     *)
(* order (unknown names change nothing), and in every row, also one        *)
(* shorter than the headers, the cell at position k is the original cell   *)
(* at the original index of the k-th kept header; a row holds as many      *)
(* cells as it had at kept indices.                                        *)
(***************************************************************************)
C7_FilterKeepsColumns ==
    (pc = "parsed" /\ filter_columns # <<>>) =>
        LET raw  == Unfiltered
            kept == Kept(raw.headers, filter_columns)
        IN  /\ Len(headers) = Cardinality(kept)
            /\ \A k \in 1..Len(headers) : headers[k] = raw.headers[KthOf(kept, k)]
            /\ Len(data) = Len(raw.data)
            /\ \A r \in 1..Len(data) :
                   /\ Len(data[r]) =
                          Cardinality({i \in kept : i <= Len(raw.data[r])})
                   /\ \A k \in 1..Len(data[r]) :
                          data[r][k] = raw.data[r][KthOf(kept, k)]

\* C7: a filter with an unknown name that drops a leading column, on a table
\* with a row too short to reach the last kept column
C7_Witness ==
    /\ pc = "parsed"
    /\ filter_columns # <<>>
    /\ \E k \in 1..Len(filter_columns) :
           \A i \in 1..Len(Unfiltered.headers) : Unfiltered.headers[i] # filter_columns[k]
    /\ headers # <<>>
    /\ 1 \notin Kept(Unfiltered.headers, filter_columns)
    /\ \E r \in 1..Len(data) : data[r] # <<>> /\ Len(data[r]) < Len(headers)

\* what the last call would have printed with colorize=False
PlainPrinted ==
    print_formatted_table(before.headers, before.data, before.column_widths,
                          stats, FALSE, term_width).printed

(***************************************************************************)
(* C8.  Decoration is invisible to layout: what a call prints with         *)
(* colorize=true is, once the decoration codes are removed, line for line  *)
(* what the same call prints with colorize=false; colorize_cell returns    *)
(* the value unchanged with colorize=false, and with colorize=true the     *)
(* value with nothing but codes around it.                                 *)
(***************************************************************************)
C8_DecorationInvisible ==
    Rendered =>
        /\ colorize => StripAll(printed) = PlainPrinted
        /\ \A r \in 1..Len(data) :
               \A i \in 1..Min2(Len(data[r]), Len(headers)) :
                   /\ colorize_cell(data[r][i], headers[i], FALSE) = data[r][i]
                   /\ StripAnsi(colorize_cell(data[r][i], headers[i], TRUE)) = data[r][i]
                   /\ Contains(colorize_cell(data[r][i], headers[i], TRUE), data[r][i])

\* C8: a decorated table with a statistics block and a wrapped row
C8_Witness ==
    /\ Rendered /\ colorize
    /\ DOMAIN stats # {}
    /\ \E r \in 1..Len(data) :
           /\ Wrapped(r)
           /\ Len(row_lines[r]) > 1
           /\ \A j \in 1..Len(row_lines[r]) : Contains(row_lines[r][j], ESC)
    /\ \E r \in 1..Len(data) : ~Wrapped(r) /\ Contains(row_lines[r][1], ESC)

\* the table parsed afresh from the input
Fresh == parse_mysql_table(lines, filter_columns)

(***************************************************************************)
(* C9.  Render calls are independent: whatever calls were made before on   *)
(* the same headers, rows and widths, a call prints what a call at the     *)
(* same terminal width prints on a freshly parsed copy of the table.  The  *)
(* code does not keep this: the flexible width a call leaves in            *)
(* column_widths is the floor of the next call's width.                    *)
(***************************************************************************)
C9_RenderCallsIndependent ==
    Rendered =>
        printed = print_formatted_table(Fresh.headers, Fresh.data, Fresh.column_widths,
                                        stats, colorize, term_width).printed

\* the example's table, once parsed
ExampleParsed ==
    (lines = Example /\ filter_columns = <<>> /\ pc # "input") =>
        /\ headers = <<"Field", "Type">>
        /\ data = << <<"id", "int(11)">> >>

\* the example's rendering without a statistics block: its n printed lines
\* begin with a border, the header row and a border, and end with a data row
\* and a border
ExamplePrinted(n) ==
    (lines = Example /\ filter_columns = <<>> /\ Rendered /\ DOMAIN stats = {}) =>
        /\ Len(printed) = n
        /\ printed[1] = Separator(column_widths)
        /\ StartsWith(StripAnsi(printed[2]), "| Field | Type")
        /\ printed[3] = printed[1]
        /\ StartsWith(StripAnsi(printed[n - 1]), "| id    | int(11)")
        /\ printed[n] = printed[1]

(***************************************************************************)
(* C10.  As the claim has it: the five-line example parses to headers      *)
(* [Field, Type] and the one row [id, int(11)], and its rendering without  *)
(* a statistics block is 4 printed lines.                                  *)
(***************************************************************************)
C10_ExampleFourLines == ExampleParsed /\ ExamplePrinted(4)

(***************************************************************************)
(* C10, amended.  The five-line example parses to headers [Field, Type]    *)
(* and the one row [id, int(11)], and its rendering without a statistics   *)
(* block is 5 printed lines: border, header row, border, the data row and  *)
(* the closing border.                                                     *)
(***************************************************************************)
C10_ExampleFiveLines == ExampleParsed /\ ExamplePrinted(5)

\* C10: the example, parsed and rendered without a statistics block
C10_Witness ==
    /\ lines = Example /\ filter_columns = <<>> /\ DOMAIN stats = {}
    /\ Rendered
    /\ Len(data) = 1

\* the values i..j of vals, each with its comma unless it is the last value,
\* one space between them
Packed(vals, i, j) ==
    JoinWith([k \in 1..(j - i + 1) |-> WithComma(vals, i + k - 1)], " ")

\* the line value k is on, when the lines start at the values of starts
LineStart(starts, k) == SetMax({s \in starts : s <= k})

\* the last value of the line that starts at value s
LineEnd(starts, n, s) ==
    IF \E t \in starts : t > s THEN SetMin({t \in starts : t > s}) - 1 ELSE n

\* the number of the line that starts at value s (the first line is line 1)
LineNumber(starts, s) == 1 + Cardinality({t \in starts : t <= s})

\* the closing parenthesis, on the line that holds the last value
Closing(n, last) == IF last = n THEN ")" ELSE ""

(***************************************************************************)
(* C11.  format_enum packs greedily, first fit.  For a declaration with    *)
(* values v1..vn the first line is 'enum(' and v1 (with its comma when     *)
(* n > 1) and never holds a second value; the later lines are a division   *)
(* of v2..vn, in order, one space between the values of a line; a value    *)
(* from the third on starts a new line exactly when the line being filled, *)
(* a space and the value (with its comma unless it is the last) are longer *)
(* than width; so the first value of a continuation line would not have    *)
(* fit on the line before it.  The line with the last value is closed      *)
(* with ')'.                                                               *)
(***************************************************************************)
C11_GreedyFirstFit ==
    (pc = "wrapped" /\ get_enum_values(enum_str) # <<>>) =>
        LET vals == get_enum_values(enum_str)
            n    == Len(vals)
        IN  \E starts \in SUBSET (2..n) :
                /\ n >= 2 => 2 \in starts
                /\ Len(enum_lines) = 1 + Cardinality(starts)
                /\ enum_lines[1] = "enum(" \o WithComma(vals, 1) \o Closing(n, 1)
                /\ \A s \in starts :
                       enum_lines[LineNumber(starts, s)]
                           = Packed(vals, s, LineEnd(starts, n, s))
                                 \o Closing(n, LineEnd(starts, n, s))
                /\ \A i \in 3..n :
                       i \in starts <=>
                           Len(Packed(vals, LineStart(starts, i - 1), i - 1)
                                   \o " " \o WithComma(vals, i)) > enum_width
                /\ \A s \in starts \ {2} :
                       Len(enum_lines[LineNumber(starts, s) - 1]
                               \o " " \o WithComma(vals, s)) > enum_width

\* C11: three lines or more, a later line holding two values, and a first
\* line on which the second value would have fit
C11_Witness ==
    /\ pc = "wrapped"
    /\ Len(get_enum_values(enum_str)) >= 4
    /\ Len(enum_lines) >= 3
    /\ \E j \in 2..Len(enum_lines) : Len(FindAllQuoted(enum_lines[j])) >= 2
    /\ Len(enum_lines[1] \o " " \o WithComma(get_enum_values(enum_str), 2))
           <= enum_width

\* the visible cells of a printed row: what stands between its '|'
VisibleCells(line) == PipeCellsUnstripped(StripAnsi(line))

\* whether row r of the table goes over several physical lines, as C12 has it
WrapsPerClaim(r) ==
    LET tci == TypeColIndex(headers)
    IN  /\ tci # 0
        /\ Contains(data[r][tci], "enum(")
        /\ Len(data[r][tci]) > 40

\* the lines format_enum gives for the flexible cell of row r
FlexibleLines(r) ==
    format_enum(data[r][TypeColIndex(headers)], column_widths[TypeColIndex(headers)])

\* row r as the call left it is the row it was given, with empty strings up
\* to len(headers)
PaddedFrom(r) ==
    /\ Len(data[r]) = Max2(Len(before.data[r]), Len(headers))
    /\ SubSeq(data[r], 1, Len(before.data[r])) = before.data[r]
    /\ \A i \in (Len(before.data[r]) + 1)..Len(data[r]) : data[r][i] = ""

(***************************************************************************)
(* C12.  A row is printed on k = len(format_enum(cell, flexible width))    *)
(* physical lines exactly when there is a flexible column and the row's    *)
(* flexible cell contains 'enum(' and is longer than 40 characters; every  *)
(* other row, a 40-character cell included, is printed on one line.  On    *)
(* line j of a wrapped row the flexible cell shows line j of format_enum;  *)
(* every other cell shows its content on the first line and is blank on    *)
(* the later ones.  Rows shorter than the headers are padded with empty    *)
(* strings up to len(headers) first.  The rows' lines, in order, are the   *)
(* printed lines between the third border and the last.                    *)
(***************************************************************************)
C12_WrappedRowLines ==
    Rendered =>
        /\ \A r \in 1..Len(data) :
               /\ PaddedFrom(r)
               /\ Len(row_lines[r]) = IF WrapsPerClaim(r) THEN Len(FlexibleLines(r)) ELSE 1
               /\ WrapsPerClaim(r) =>
                      \A j \in 1..Len(row_lines[r]) :
                          LET cells == VisibleCells(row_lines[r][j])
                          IN  /\ Len(cells) = Len(headers)
                              /\ \A i \in 1..Len(headers) :
                                     Strip(cells[i]) =
                                         IF i = TypeColIndex(headers)
                                         THEN Strip(FlexibleLines(r)[j])
                                         ELSE IF j = 1 THEN Strip(data[r][i])
                                         ELSE ""
        /\ LET body == Flatten(row_lines)
           IN  /\ Len(printed) >= Len(body) + 4
               /\ SubSeq(printed, Len(printed) - Len(body), Len(printed) - 1) = body

\* C12: a row wrapped over several lines with content in its other cells,
\* next to a short row whose 40-character enum cell stays on one line
C12_Witness ==
    /\ Rendered
    /\ \E r \in 1..Len(data) :
           /\ WrapsPerClaim(r)
           /\ Len(row_lines[r]) >= 3
           /\ \E i \in 1..Len(headers) :
                  i # TypeColIndex(headers) /\ Strip(data[r][i]) # ""
    /\ \E r \in 1..Len(data) :
           /\ TypeColIndex(headers) # 0
           /\ Contains(data[r][TypeColIndex(headers)], "enum(")
           /\ Len(data[r][TypeColIndex(headers)]) = 40
           /\ Len(row_lines[r]) = 1
           /\ Len(before.data[r]) < Len(headers)

\* the flexible column as C13 selects it, 0 for none
FlexiblePerClaim(hs) ==
    IF \E i \in 1..Len(hs) : Lower(hs[i]) = "type"
    THEN CHOOSE i \in 1..Len(hs) :
             /\ Lower(hs[i]) = "type"
             /\ \A k \in 1..(i - 1) : Lower(hs[k]) # "type"
    ELSE IF Len(hs) > 1 THEN 2
    ELSE 0

\* the flexible width as C13 computes it from the widths the call was given
FlexibleWidthPerClaim(original, f, terminalWidth) ==
    Max2(original[f],
         Min2(terminalWidth - (Sum(original) - original[f]
                                   + 3 * (Len(original) - 1) + 4),
              50))

(***************************************************************************)
(* C13.  The flexible column is the first whose header is 'type' in any    *)
(* case, else the second column when there is more than one, else none.    *)
(* A call leaves in the flexible column's width                            *)
(* max(original, min(terminalWidth - (sum(widths) - original               *)
(* + 3*(columnCount - 1) + 4), 50)) and leaves every other width as it     *)
(* was; without a flexible column it leaves all widths as they were.       *)
(***************************************************************************)
C13_WidthAdjustment ==
    Rendered =>
        LET original == before.column_widths
            f        == FlexiblePerClaim(headers)
        IN  /\ Len(column_widths) = Len(original)
            /\ \A i \in 1..Len(original) :
                   column_widths[i] =
                       IF i = f
                       THEN FlexibleWidthPerClaim(original, f, term_width)
                       ELSE original[i]

\* C13: the first of two type headers, written in capitals in the third
\* column, is widened to the room the terminal leaves
C13_Witness ==
    /\ Rendered
    /\ Len(headers) = 4
    /\ headers[3] = "TYPE" /\ headers[4] = "type"
    /\ column_widths[3] > before.column_widths[3]
    /\ column_widths[3] < 50
    /\ column_widths[2] = before.column_widths[2]
    /\ column_widths[4] = before.column_widths[4]

====
